---- MODULE Spec2Model ----
(***************************************************************************)
(* The ledger-entry write path of app/services/entry_service.py over the   *)
(* PostgreSQL tables of app/db/models.  Every request runs in a session of *)
(* its own (app/db/session.py get_session); each awaited database round    *)
(* trip (a SELECT, the flush+COMMIT, the refresh) is one atomic step, and  *)
(* steps of different requests interleave freely (READ COMMITTED).         *)
(* The database starts as scripts/seed.py leaves it.  Amounts are in cents *)
(* (Numeric(12, 2)).  No code path reads a timestamp it wrote, so the      *)
(* instants are two: that of the seed and that of the requests.            *)
(* Spec is the entry write path alone; AccountSpec is the account service  *)
(* of app/services/account_service.py; ReadSpec adds the read of one entry *)
(* and the deactivation of an account to the write path; ListSpec has the  *)
(* list and the summary next to creates, updates and deletes; PageSpec has *)
(* the pages of the list over entries of equal date; FrameSpec has the     *)
(* requests of both services that are refused.                             *)
(***************************************************************************)
EXTENDS Integers, Sequences, FiniteSets, TLC

VARIABLES accounts, entries, req, nreq, last, succ

vars == <<accounts, entries, req, nreq, last, succ>>

\* ---------------------------------------------------------------- bounds
MaxProcs == 2
MaxRequests == 3

Procs == 1..MaxProcs

\* ------------------------------------------------------------ value model
\* Optional[...] = None in the request schemas.
None == "<None>"
NoAmount == -1
NoDate == 0

\* The two EntryType classes.  A member is identified by its class and name.
SchemaEntryType(n) == [class |-> "ledger_entry_schema.EntryType", name |-> n]

DBEntryType(n) == [class |-> "ledger_entry_model.EntryType", name |-> n]

\* The Enum(EntryType) column: any member or name is bound to the database
\* label, and a row is loaded as the member of the mapped model class.
EnumColumn(member) == DBEntryType(member.name)

\* Python's != between two enum members: neither class defines __eq__ for
\* the other, so the comparison falls back to identity.
PyEnumNe(a, b) == a # b

\* Python's (x or ""): None and "" both give "".
OrEmpty(d) == IF d = None THEN "" ELSE d

\* The USD -> CAD rate of the gateway, in hundredths (1.35), and the
\* conversion round(amount * Decimal(rate), 2) on cents.  Decimal(1.35) lies
\* just above 1.35, so a tie rounds up.
RateHundredths == 135

CanadianAmount(amount) == (amount * RateHundredths + 50) \div 100

\* ------------------------------------------------------------------ rows
NoEntry == [id |-> 0]

NoAccount == 0

\* datetime.now(timezone.utc): in the seed script, and in a request.
SeedTime == 1

Now == 2

\* The accounts of scripts/seed.py that the requests name, and its first
\* entry.
SeedAccounts ==
    <<[name |-> "Cash", is_active |-> TRUE],
      [name |-> "Bank", is_active |-> TRUE],
      [name |-> "Suspense", is_active |-> FALSE]>>

SeedKey == "seed-key-0001"

SeedEntries ==
    <<[account_id |-> 1,
       date |-> SeedTime,
       entry_type |-> EnumColumn(SchemaEntryType("debit")),
       amount |-> 500000,
       currency |-> "USD",
       description |-> "Invoice #123",
       created_at |-> SeedTime,
       updated_at |-> SeedTime,
       is_deleted |-> FALSE,
       version |-> 1,
       idempotency_key |-> SeedKey]>>

EntryIds == 1..Len(entries)

\* A loaded ORM object: the row and its primary key.
Row(id) == [id |-> id] @@ entries[id]

\* select(DBAccount).where(name == n, is_active.is_(True)).scalar_one_or_none()
ActiveAccountByNameAny(n) ==
    LET ids == {a \in DOMAIN accounts : accounts[a].name = n}
    IN  IF ids = {} THEN NoAccount ELSE CHOOSE a \in ids : TRUE

ActiveAccountByName(n) ==
    LET ids == {a \in DOMAIN accounts :
                    accounts[a].name = n /\ accounts[a].is_active}
    IN  IF ids = {} THEN NoAccount ELSE CHOOSE a \in ids : TRUE

\* select(DBLedgerEntry).where(idempotency_key == k).scalar_one_or_none()
EntryByKey(k) ==
    LET ids == {e \in EntryIds : entries[e].idempotency_key = k}
    IN  IF ids = {} THEN NoEntry ELSE Row(CHOOSE e \in ids : TRUE)

\* select(DBLedgerEntry).where(id == i, is_deleted.is_(False)).scalar_one_or_none()
ActiveEntryByIdAny(i) == IF i \in EntryIds THEN Row(i) ELSE NoEntry

ActiveEntryByIdOfActiveAccount(i) ==
    IF i \in EntryIds /\ ~entries[i].is_deleted
       /\ accounts[entries[i].account_id].is_active
    THEN Row(i) ELSE NoEntry

ActiveEntryById(i) ==
    IF i \in EntryIds /\ ~entries[i].is_deleted THEN Row(i) ELSE NoEntry

\* A table without the unique constraint.
UniqueViolationOff(k) == FALSE

\* The unique constraint uq_ledger_entry_idempotency_key, checked by the
\* INSERT.
UniqueViolation(k) == \E e \in EntryIds : entries[e].idempotency_key = k

\* -------------------------------------------------------------- requests
\* LedgerEntryCreate bodies (currency is Literal["USD"]): the request that
\* repeats the seeded entry, the requests that differ from it in one field,
\* and a new request with no description and its twin with an empty one.
SeedCreate ==
    [account_name |-> "Cash", entry_type |-> SchemaEntryType("debit"),
     amount |-> 500000, currency |-> "USD", description |-> "Invoice #123",
     date |-> NoDate, idempotency_key |-> SeedKey]

NewCreate ==
    [account_name |-> "Cash", entry_type |-> SchemaEntryType("debit"),
     amount |-> 1000, currency |-> "USD", description |-> None,
     date |-> NoDate, idempotency_key |-> "key-0002"]

CreateBodies ==
    {SeedCreate,
     [SeedCreate EXCEPT !.account_name = "Bank"],
     [SeedCreate EXCEPT !.account_name = "Suspense"],
     [SeedCreate EXCEPT !.entry_type = SchemaEntryType("credit")],
     [SeedCreate EXCEPT !.amount = 1000],
     [SeedCreate EXCEPT !.description = None],
     NewCreate,
     [NewCreate EXCEPT !.description = ""]}

\* LedgerEntryUpdate bodies.
UpdateBodies ==
    {[amount |-> NoAmount, description |-> None],
     [amount |-> 500000, description |-> None],
     [amount |-> 1000, description |-> None],
     [amount |-> NoAmount, description |-> "memo"],
     [amount |-> 1000, description |-> "memo"]}

\* An id no entry has.
UnknownId == 0

TargetIds == EntryIds \cup {UnknownId}

\* The session of a request that is not running.
Idle == [pc |-> "idle"]

NoResponse == [request |-> Idle, status |-> "none", out |-> NoEntry]

\* ------------------------------------------------------------- responses
\* LedgerEntryOut.model_validate(obj), with canadian_amount as given.
LedgerEntryOut(obj, cad) ==
    [obj EXCEPT !.entry_type = SchemaEntryType(@.name)]
        @@ [canadian_amount |-> cad]

\* LedgerEntryDeletedResponse.model_validate(obj)
LedgerEntryDeletedResponse(obj) ==
    [id |-> obj.id, is_deleted |-> obj.is_deleted, version |-> obj.version]

\* The request of session p ends: the response goes out and the session
\* closes.  last is the response the latest step sent, with the request it
\* answers (NoResponse when the step sent none).
Respond(p, request, status, out) ==
    /\ req' = [req EXCEPT ![p] = Idle]
    /\ last' = [request |-> request, status |-> status, out |-> out]

\* raise HTTPException(status_code, detail): 404 is "NotFound", 400 is
\* "BadRequest" and 409 is "Conflict", in both services.
Raise(p, request, status, detail) ==
    /\ req' = [req EXCEPT ![p] = Idle]
    /\ last' = [request |-> request, status |-> status, out |-> NoEntry,
                detail |-> detail]

\* The next request takes the lowest free session (sessions are alike).
Free(p) ==
    /\ req[p].pc = "idle"
    /\ \A q \in Procs : q < p => req[q].pc # "idle"
    /\ nreq < MaxRequests

\* ---------------------------------------------------------- create_entry
\* The comparison of a stored entry with a replayed request.
PayloadDiffers(existing, body, account_id) ==
    \/ existing.account_id # account_id
    \/ PyEnumNe(existing.entry_type, body.entry_type)
    \/ existing.amount # body.amount
    \/ existing.currency # body.currency
    \/ OrEmpty(existing.description) # OrEmpty(body.description)

\* An idempotency check that returns the existing entry without comparing.
ReplayStatusUnchecked(existing, body, account_id) == "ok"

\* What the idempotency check answers for an existing entry.
ReplayStatus(existing, body, account_id) ==
    IF PayloadDiffers(existing, body, account_id) THEN "Conflict" ELSE "ok"

\* DBLedgerEntry(...) as inserted: the column defaults fill the rest.
NewEntry(body, account_id, date, now) ==
    [account_id |-> account_id,
     date |-> date,
     entry_type |-> EnumColumn(body.entry_type),
     amount |-> body.amount,
     currency |-> body.currency,
     description |-> body.description,
     created_at |-> now,
     updated_at |-> now,
     is_deleted |-> FALSE,
     version |-> 1,
     idempotency_key |-> body.idempotency_key]

\* The request arrives and the account is resolved.
CreateStart(p, body) ==
    /\ Free(p)
    /\ nreq' = nreq + 1
    /\ LET a == ActiveAccountByName(body.account_name)
       IN  IF a = NoAccount
           THEN Respond(p, [op |-> "create", body |-> body],
                        "NotFound", NoEntry)
           ELSE /\ req' = [req EXCEPT ![p] =
                             [pc |-> "c_key", op |-> "create", body |-> body,
                              account_id |-> a]]
                /\ last' = NoResponse
    /\ UNCHANGED <<accounts, entries, succ>>

\* The idempotency-key lookup, and the new object if there is no entry.
CreateKeyLookup(p) ==
    /\ req[p].pc = "c_key"
    /\ LET r == req[p]
           existing == EntryByKey(r.body.idempotency_key)
       IN  IF existing # NoEntry
           THEN IF ReplayStatus(existing, r.body, r.account_id) = "Conflict"
                THEN Respond(p, r, "Conflict", NoEntry)
                ELSE Respond(p, r, "ok", LedgerEntryOut(existing, NoAmount))
           ELSE /\ req' = [req EXCEPT ![p] =
                             [r EXCEPT !.pc = "c_commit"] @@
                             [date |-> IF r.body.date = NoDate THEN Now
                                       ELSE r.body.date]]
                /\ last' = NoResponse
    /\ UNCHANGED <<accounts, entries, nreq, succ>>

\* db.add(new_entry); await db.commit(): the INSERT.  A violation of the
\* unique constraint raises IntegrityError, which nothing catches.
CreateCommit(p) ==
    /\ req[p].pc = "c_commit"
    /\ LET r == req[p]
       IN  IF UniqueViolation(r.body.idempotency_key)
           THEN /\ Respond(p, r, "IntegrityError", NoEntry)
                /\ UNCHANGED <<entries, succ>>
           ELSE /\ entries' = Append(entries,
                                NewEntry(r.body, r.account_id, r.date, Now))
                /\ succ' = Append(succ, 0)
                /\ req' = [req EXCEPT ![p] =
                             [r EXCEPT !.pc = "c_refresh"] @@
                             [entry_id |-> Len(entries) + 1]]
                /\ last' = NoResponse
    /\ UNCHANGED <<accounts, nreq>>

\* await db.refresh(new_entry), then the gateway call and the response.
CreateRefresh(p, gateway_ok) ==
    /\ req[p].pc = "c_refresh"
    /\ LET obj == Row(req[p].entry_id)
       IN  IF gateway_ok
           THEN Respond(p, req[p], "ok",
                        LedgerEntryOut(obj, CanadianAmount(obj.amount)))
           ELSE Respond(p, req[p], "GatewayFailure", NoEntry)
    /\ UNCHANGED <<accounts, entries, nreq, succ>>

\* ---------------------------------------------------------- update_entry
\* Whether the request changes the loaded entry.
ChangesDetectedStrict(entry, body) ==
    \/ body.amount # NoAmount /\ body.amount # entry.amount
    \/ body.description # None /\ body.description # entry.description

\* A check that passes every request that supplies a field.
ChangesDetectedAlways(entry, body) ==
    body.amount # NoAmount \/ body.description # None

ChangesDetected(entry, body) ==
    \/ body.amount # NoAmount /\ body.amount # entry.amount
    \/ /\ body.description # None
       /\ OrEmpty(body.description) # OrEmpty(entry.description)

\* An UPDATE that writes the loaded object back whole, is_deleted included.
UpdateRowDated(row, loaded, body, now) ==
    [row EXCEPT
       !.amount = IF body.amount # NoAmount /\ body.amount # loaded.amount
                  THEN body.amount ELSE @,
       !.description = IF body.description # None
                          /\ body.description # loaded.description
                       THEN body.description ELSE @,
       !.date = now,
       !.updated_at = now,
       !.version = loaded.version + 1]

UpdateRowWhole(row, loaded, body, now) ==
    [row EXCEPT
       !.amount = IF body.amount # NoAmount THEN body.amount
                  ELSE loaded.amount,
       !.description = IF body.description # None THEN body.description
                       ELSE loaded.description,
       !.is_deleted = loaded.is_deleted,
       !.updated_at = now,
       !.version = loaded.version + 1]

\* The UPDATE the flush emits for the dirty object: the attributes whose
\* value differs from the loaded one, WHERE id = :id.  version is the loaded
\* version plus one.
UpdateRow(row, loaded, body, now) ==
    [row EXCEPT
       !.amount = IF body.amount # NoAmount /\ body.amount # loaded.amount
                  THEN body.amount ELSE @,
       !.description = IF /\ body.description # None
                          /\ body.description # loaded.description
                       THEN body.description ELSE @,
       !.updated_at = now,
       !.version = loaded.version + 1]

\* An update_entry that looks the entry up before it looks at the fields.
UpdateStartLookupFirst(p, id, body) ==
    /\ Free(p)
    /\ nreq' = nreq + 1
    /\ LET entry == ActiveEntryById(id)
           request == [op |-> "update", entry_id |-> id, body |-> body]
       IN  IF entry = NoEntry
           THEN Respond(p, request, "NotFound", NoEntry)
           ELSE IF body.amount = NoAmount /\ body.description = None
           THEN Raise(p, request, "BadRequest", "No fields provided to update")
           ELSE IF ~ChangesDetected(entry, body)
           THEN Raise(p, request, "BadRequest", "No changes detected in update")
           ELSE /\ req' = [req EXCEPT ![p] =
                             [pc |-> "u_commit", op |-> "update",
                              body |-> body, entry_id |-> id,
                              loaded |-> entry, now |-> Now]]
                /\ last' = NoResponse
    /\ UNCHANGED <<accounts, entries, succ>>

\* The request arrives, the entry is loaded and the changes are applied to
\* the loaded object.
UpdateStart(p, id, body) ==
    /\ Free(p)
    /\ nreq' = nreq + 1
    /\ IF body.amount = NoAmount /\ body.description = None
       THEN Raise(p, [op |-> "update", entry_id |-> id, body |-> body],
                  "BadRequest", "No fields provided to update")
       ELSE LET entry == ActiveEntryById(id)
            IN  IF entry = NoEntry
                THEN Respond(p, [op |-> "update", entry_id |-> id,
                                 body |-> body], "NotFound", NoEntry)
                ELSE IF ~ChangesDetected(entry, body)
                THEN Raise(p, [op |-> "update", entry_id |-> id,
                               body |-> body],
                           "BadRequest", "No changes detected in update")
                ELSE /\ req' = [req EXCEPT ![p] =
                                  [pc |-> "u_commit", op |-> "update",
                                   body |-> body, entry_id |-> id,
                                   loaded |-> entry, now |-> Now]]
                     /\ last' = NoResponse
    /\ UNCHANGED <<accounts, entries, succ>>

\* await db.commit(): the UPDATE.  before records the row as it was stored
\* immediately before this write.
UpdateCommit(p) ==
    /\ req[p].pc = "u_commit"
    /\ LET r == req[p]
           row == entries[r.entry_id]
       IN  /\ entries' = [entries EXCEPT ![r.entry_id] =
                             UpdateRow(@, r.loaded, r.body, r.now)]
           /\ req' = [req EXCEPT ![p] =
                        [r EXCEPT !.pc = "u_refresh"] @@
                        [before |-> row]]
    /\ last' = NoResponse
    /\ UNCHANGED <<accounts, nreq, succ>>

\* A gateway failure that undoes the UPDATE.
UpdateRefreshRollingBack(p, gateway_ok) ==
    /\ req[p].pc = "u_refresh"
    /\ LET id == req[p].entry_id
           obj == Row(id)
       IN  IF gateway_ok
           THEN /\ Respond(p, req[p], "ok",
                           LedgerEntryOut(obj, CanadianAmount(obj.amount)))
                /\ succ' = [succ EXCEPT ![id] = @ + 1]
                /\ UNCHANGED entries
           ELSE /\ Respond(p, req[p], "GatewayFailure", NoEntry)
                /\ entries' = [entries EXCEPT ![id] = req[p].before]
                /\ UNCHANGED succ
    /\ UNCHANGED <<accounts, nreq>>

\* await db.refresh(entry), then the gateway call and the response.
UpdateRefresh(p, gateway_ok) ==
    /\ req[p].pc = "u_refresh"
    /\ LET id == req[p].entry_id
           obj == Row(id)
       IN  IF gateway_ok
           THEN /\ Respond(p, req[p], "ok",
                           LedgerEntryOut(obj, CanadianAmount(obj.amount)))
                /\ succ' = [succ EXCEPT ![id] = @ + 1]
           ELSE /\ Respond(p, req[p], "GatewayFailure", NoEntry)
                /\ UNCHANGED succ
    /\ UNCHANGED <<accounts, entries, nreq>>

\* ---------------------------------------------------------- delete_entry
\* The UPDATE of a soft-delete.
DeleteRow(row, loaded, now) ==
    [row EXCEPT !.is_deleted = TRUE,
                !.updated_at = now,
                !.version = loaded.version + 1]

DeleteStart(p, id) ==
    /\ Free(p)
    /\ nreq' = nreq + 1
    /\ LET entry == ActiveEntryById(id)
       IN  IF entry = NoEntry
           THEN Respond(p, [op |-> "delete", entry_id |-> id],
                        "NotFound", NoEntry)
           ELSE /\ req' = [req EXCEPT ![p] =
                             [pc |-> "d_commit", op |-> "delete",
                              entry_id |-> id, loaded |-> entry,
                              now |-> Now]]
                /\ last' = NoResponse
    /\ UNCHANGED <<accounts, entries, succ>>

DeleteCommit(p) ==
    /\ req[p].pc = "d_commit"
    /\ LET r == req[p]
           row == entries[r.entry_id]
       IN  /\ entries' = [entries EXCEPT ![r.entry_id] =
                             DeleteRow(@, r.loaded, r.now)]
           /\ req' = [req EXCEPT ![p] =
                        [r EXCEPT !.pc = "d_refresh"] @@
                        [before |-> row]]
    /\ last' = NoResponse
    /\ UNCHANGED <<accounts, nreq, succ>>

\* await db.refresh(entry) and the response.
DeleteRefresh(p) ==
    /\ req[p].pc = "d_refresh"
    /\ LET id == req[p].entry_id
       IN  /\ Respond(p, req[p], "ok", LedgerEntryDeletedResponse(Row(id)))
           /\ succ' = [succ EXCEPT ![id] = @ + 1]
    /\ UNCHANGED <<accounts, entries, nreq>>

\* ----------------------------------------------------------- the system
Init ==
    /\ accounts = SeedAccounts
    /\ entries = SeedEntries
    /\ req = [p \in Procs |-> Idle]
    /\ nreq = 0
    /\ last = NoResponse
    /\ succ = [e \in DOMAIN SeedEntries |-> 0]

Next ==
    \E p \in Procs :
        \/ \E body \in CreateBodies : CreateStart(p, body)
        \/ CreateKeyLookup(p)
        \/ CreateCommit(p)
        \/ \E gateway_ok \in BOOLEAN : CreateRefresh(p, gateway_ok)
        \/ \E id \in TargetIds, body \in UpdateBodies : UpdateStart(p, id, body)
        \/ UpdateCommit(p)
        \/ \E gateway_ok \in BOOLEAN : UpdateRefresh(p, gateway_ok)
        \/ \E id \in TargetIds : DeleteStart(p, id)
        \/ DeleteCommit(p)
        \/ DeleteRefresh(p)

Spec == Init /\ [][Next]_vars

\* ------------------------------------------------------------ the claims
\* Session p takes its step from control point pc.
Steps(p, pc) == req[p].pc = pc /\ req'[p].pc # pc

\* The stored entry and the request name the same account, kind, amount,
\* currency and description (None and "" alike).
SameData(existing, body, account_id) ==
    /\ existing.account_id = account_id
    /\ existing.entry_type.name = body.entry_type.name
    /\ existing.amount = body.amount
    /\ existing.currency = body.currency
    /\ OrEmpty(existing.description) = OrEmpty(body.description)

\* C1: a Create whose idempotency key is held by a stored entry, whose
\* account is active and whose account id, kind, amount, currency and
\* description (None and "" alike) are those of the stored entry answers ok
\* with that entry, and the stored entries stay as they are.
C1_IdempotentReplay ==
    [][\A p \in Procs :
         LET r == req[p]
             existing == EntryByKey(r.body.idempotency_key)
         IN  ( /\ Steps(p, "c_key")
               /\ existing # NoEntry
               /\ accounts[r.account_id].is_active
               /\ SameData(existing, r.body, r.account_id) )
             => /\ last'.status = "ok"
                /\ last'.out.id = existing.id
                /\ last'.out.version = existing.version
                /\ entries' = entries]_vars

\* C2: a Create whose idempotency key is held by a stored entry that differs
\* from the request in account id, kind, amount, currency or description is
\* answered Conflict, and the stored entries stay as they are.
C2_ReplayConflict ==
    [][\A p \in Procs :
         LET r == req[p]
             existing == EntryByKey(r.body.idempotency_key)
         IN  ( /\ Steps(p, "c_key")
               /\ existing # NoEntry
               /\ ~SameData(existing, r.body, r.account_id) )
             => /\ last'.status = "Conflict"
                /\ entries' = entries]_vars

\* A Create has just been answered Conflict for a key whose stored entry has
\* another amount than the request.
C2_Witness ==
    /\ last.status = "Conflict"
    /\ last.request.op = "create"
    /\ \E e \in EntryIds :
          /\ entries[e].idempotency_key = last.request.body.idempotency_key
          /\ entries[e].amount # last.request.body.amount
          /\ entries[e].entry_type.name = last.request.body.entry_type.name

\* C3: no two stored entries, deleted or not, have the same idempotency key.
C3_UniqueIdempotencyKey ==
    \A e1, e2 \in EntryIds :
        e1 # e2 => entries[e1].idempotency_key # entries[e2].idempotency_key

\* Two Creates with one new key both passed the lookup; one inserted and the
\* INSERT of the other has just been rejected by the constraint.
C3_Witness ==
    /\ last.status = "IntegrityError"
    /\ Len(entries) > Len(SeedEntries)
    /\ \E e \in EntryIds \ DOMAIN SeedEntries :
          entries[e].idempotency_key = last.request.body.idempotency_key

\* C4: a Create whose INSERT violates the unique constraint on the
\* idempotency key (it passed the lookup, and a concurrent Create inserted the
\* key since) is answered Conflict or ok with the existing entry.
C4_RaceAnsweredConflict ==
    [][\A p \in Procs :
         ( /\ Steps(p, "c_commit")
           /\ UniqueViolation(req[p].body.idempotency_key) )
         => last'.status \in {"Conflict", "ok"}]_vars

\* C5: the write of an Update stores the version that was stored immediately
\* before it plus one, and a successful Update returns that version.
C5_UpdateIncrementsVersion ==
    [][\A p \in Procs :
         LET id == req[p].entry_id
         IN  /\ Steps(p, "u_commit")
                => entries'[id].version = entries[id].version + 1
             /\ (Steps(p, "u_refresh") /\ last'.status = "ok")
                => last'.out.version = req[p].before.version + 1]_vars

\* C6: no version increment is lost: the stored version of an entry is never
\* less than 1 plus the number of Updates and Deletes of it that were
\* answered ok (the equality the claim states implies it), and no Update or
\* Delete that wrote over a version newer than the one it had read is
\* answered ok.
C6_NoLostIncrement ==
    /\ \A e \in EntryIds : entries[e].version >= 1 + succ[e]
    /\ ( /\ last.status = "ok"
         /\ last.request.op \in {"update", "delete"} )
       => last.request.before.version = last.request.loaded.version

\* C7: an entry is created with version 1 and its stored version never
\* decreases.
C7_VersionMonotonic ==
    [][/\ \A e \in EntryIds : entries'[e].version >= entries[e].version
       /\ \A e \in (DOMAIN entries') \ EntryIds : entries'[e].version = 1]_vars

\* C8: the write of a Delete sets is_deleted and stores the version that was
\* stored immediately before it plus one, a successful Delete returns that
\* version, and every later Delete, and every later Update that supplies a
\* field, of that id is answered NotFound and changes no entry.
C8_SoftDelete ==
    [][/\ \A p \in Procs :
            LET id == req[p].entry_id
            IN  /\ Steps(p, "d_commit")
                   => /\ entries'[id].is_deleted
                      /\ entries'[id].version = entries[id].version + 1
                /\ Steps(p, "d_refresh")
                   => /\ last'.out.is_deleted
                      /\ last'.out.version = req[p].before.version + 1
       /\ ( /\ nreq' = nreq + 1
            /\ last' # NoResponse
            /\ last'.request.op \in {"update", "delete"}
            /\ last'.request.entry_id \in EntryIds
            /\ entries[last'.request.entry_id].is_deleted
            /\ last'.request.op = "update"
               => \/ last'.request.body.amount # NoAmount
                  \/ last'.request.body.description # None )
          => /\ last'.status = "NotFound"
             /\ entries' = entries]_vars

\* C9: once an entry is stored with is_deleted true, it is so in every later
\* state.
C9_DeletedIsTerminal ==
    [][\A e \in EntryIds :
         entries[e].is_deleted => entries'[e].is_deleted]_vars

\* An Update that had loaded the entry as active has written it after a
\* Delete of the same entry committed, and the entry is still deleted.
C9_Witness ==
    \E p \in Procs :
        /\ req[p].pc = "u_refresh"
        /\ ~req[p].loaded.is_deleted
        /\ req[p].before.is_deleted
        /\ entries[req[p].entry_id].is_deleted

\* C10: the write of an Update that finds the entry deleted (a Delete
\* committed after the Update loaded it) changes neither the amount nor the
\* description nor the version of the entry.
C10_UpdateSparesDeleted ==
    [][\A p \in Procs :
         LET id == req[p].entry_id
         IN  (Steps(p, "u_commit") /\ entries[id].is_deleted)
             => /\ entries'[id].amount = entries[id].amount
                /\ entries'[id].description = entries[id].description
                /\ entries'[id].version = entries[id].version]_vars

\* ------------------------------------------------------------- accounts
\* app/services/account_service.py over the accounts table.  An account's
\* id is its position in accounts.
AccountIds == DOMAIN accounts

AccountRow(id) == [id |-> id] @@ accounts[id]

\* get_account_or_raise_404: SELECT ... WHERE id = :id.
AccountById(id) ==
    IF id \in AccountIds THEN AccountRow(id) ELSE [id |-> NoAccount]

\* get_account_by_name: looks up any account, active or not, with the name.
AccountByName(n) ==
    LET ids == {a \in AccountIds : accounts[a].name = n}
    IN  IF ids = {} THEN [id |-> NoAccount]
        ELSE AccountRow(CHOOSE a \in ids : TRUE)

AccountNameExistsOff(n) == FALSE

AccountNameExistsActiveOnly(n) ==
    \E a \in AccountIds : accounts[a].name = n /\ accounts[a].is_active

\* account_name_exists: SELECT ... WHERE name = :name, any account.
AccountNameExists(n) == \E a \in AccountIds : accounts[a].name = n

AccountNameTakenOff(n, self) == FALSE

\* unique=True on accounts.name: an INSERT (self = NoAccount) or an UPDATE of
\* row self that would store a name another row holds is refused.
AccountNameTaken(n, self) ==
    \E a \in AccountIds \ {self} : accounts[a].name = n

\* AccountOut.model_validate(account).
AccountOut(obj) == [id |-> obj.id, name |-> obj.name, is_active |-> obj.is_active]

\* Python truthiness of an Optional[str]: None and "" are false.
Truthy(s) == s # None /\ s # ""

\* An Optional[bool] that is None is the request without the field.
FlagGiven(update) == "is_active" \in DOMAIN update

\* POST /accounts bodies and PATCH /accounts/{id} bodies.
CreateAccountBodies ==
    { [name |-> "Cash", is_active |-> TRUE],
      [name |-> "Suspense", is_active |-> TRUE],
      [name |-> "Petty", is_active |-> TRUE] }

AccountUpdates ==
    { [name |-> None, is_active |-> FALSE],
      [name |-> "Petty"],
      [name |-> "Cash", is_active |-> FALSE],
      [name |-> "Cash", is_active |-> TRUE] }

\* An id no account has, the active account Bank, the inactive Suspense.
AccountTargetIds == {NoAccount, 2, 3}

CreateAccountBranchUnchecked(existing) ==
    IF existing.id = NoAccount THEN "insert" ELSE "reactivate"

\* create_account's three cases: no account of the name, an active one, an
\* inactive one.
CreateAccountBranch(existing) ==
    IF existing.id = NoAccount THEN "insert"
    ELSE IF existing.is_active THEN "raise"
    ELSE "reactivate"

\* create_account, the lookup by name and the branch taken on its result.
CreateAccountStart(p, body) ==
    /\ Free(p)
    /\ nreq' = nreq + 1
    /\ LET request == [op |-> "create_account", body |-> body]
           existing == AccountByName(body.name)
       IN  IF CreateAccountBranch(existing) = "insert"
           THEN /\ req' = [req EXCEPT ![p] = [pc |-> "a_insert"] @@ request]
                /\ last' = NoResponse
           ELSE IF CreateAccountBranch(existing) = "raise"
           THEN Raise(p, request, "BadRequest", "Account name already exists")
           ELSE /\ req' = [req EXCEPT ![p] =
                               [pc |-> "a_reactivate", account_id |-> existing.id,
                                loaded |-> existing] @@ request]
                /\ last' = NoResponse
    /\ UNCHANGED <<accounts, entries, succ>>

\* db.add(new_account); await db.commit(): the INSERT.  An IntegrityError is
\* not caught.
CreateAccountInsert(p) ==
    /\ req[p].pc = "a_insert"
    /\ LET r == req[p]
       IN  IF AccountNameTaken(r.body.name, NoAccount)
           THEN /\ Respond(p, r, "IntegrityError", NoEntry)
                /\ UNCHANGED accounts
           ELSE /\ accounts' = Append(accounts,
                                      [name |-> r.body.name,
                                       is_active |-> r.body.is_active])
                /\ req' = [req EXCEPT ![p] =
                               [r EXCEPT !.pc = "a_refresh"] @@
                               [account_id |-> Len(accounts) + 1,
                                before |-> [id |-> NoAccount]]]
                /\ last' = NoResponse
    /\ UNCHANGED <<entries, nreq, succ>>

\* existing.is_active = True; await db.commit():
\* UPDATE accounts SET is_active = true WHERE id = :id.
CreateAccountReactivate(p) ==
    /\ req[p].pc = "a_reactivate"
    /\ LET r == req[p]
       IN  /\ accounts' = [accounts EXCEPT ![r.account_id].is_active = TRUE]
           /\ req' = [req EXCEPT ![p] =
                          [r EXCEPT !.pc = "a_refresh"] @@
                          [before |-> AccountRow(r.account_id)]]
    /\ last' = NoResponse
    /\ UNCHANGED <<entries, nreq, succ>>

\* await db.refresh(account); return AccountOut.model_validate(account).
CreateAccountRefresh(p) ==
    /\ req[p].pc = "a_refresh"
    /\ Respond(p, req[p], "ok", AccountOut(AccountRow(req[p].account_id)))
    /\ UNCHANGED <<accounts, entries, nreq, succ>>

\* update_account, get_account_or_raise_404 and the test that decides
\* whether the name is looked up.
UpdateAccountStart(p, id, update) ==
    /\ Free(p)
    /\ nreq' = nreq + 1
    /\ LET request == [op |-> "update_account", account_id |-> id,
                       update |-> update]
           account == AccountById(id)
       IN  IF account.id = NoAccount
           THEN Raise(p, request, "NotFound", "Account not found")
           ELSE /\ req' = [req EXCEPT ![p] =
                               [pc |-> IF Truthy(update.name)
                                          /\ update.name # account.name
                                       THEN "ua_exists" ELSE "ua_commit",
                                loaded |-> account, renamed |-> FALSE]
                               @@ request]
                /\ last' = NoResponse
    /\ UNCHANGED <<accounts, entries, succ>>

\* if await account_name_exists(update.name, db): raise ...
UpdateAccountNameCheck(p) ==
    /\ req[p].pc = "ua_exists"
    /\ LET r == req[p]
       IN  IF AccountNameExists(r.update.name)
           THEN Raise(p, r, "BadRequest", "Account name already exists")
           ELSE /\ req' = [req EXCEPT ![p] =
                               [r EXCEPT !.pc = "ua_commit", !.renamed = TRUE]]
                /\ last' = NoResponse
    /\ UNCHANGED <<accounts, entries, nreq, succ>>

\* The UPDATE the flush emits: the attributes the handler assigned a value
\* other than the loaded one.
UpdateAccountRow(row, loaded, update, renamed) ==
    [row EXCEPT
       !.name = IF renamed THEN update.name ELSE @,
       !.is_active = IF FlagGiven(update)
                        /\ update.is_active # loaded.is_active
                     THEN update.is_active ELSE @]

UpdateAccountCommitUncaught(p) ==
    /\ req[p].pc = "ua_commit"
    /\ LET r == req[p]
       IN  IF r.renamed /\ AccountNameTaken(r.update.name, r.account_id)
           THEN /\ Respond(p, r, "IntegrityError", NoEntry)
                /\ UNCHANGED accounts
           ELSE /\ accounts' = [accounts EXCEPT ![r.account_id] =
                                   UpdateAccountRow(@, r.loaded, r.update,
                                                    r.renamed)]
                /\ req' = [req EXCEPT ![p] =
                               [r EXCEPT !.pc = "ua_refresh"] @@
                               [before |-> AccountRow(r.account_id)]]
                /\ last' = NoResponse
    /\ UNCHANGED <<entries, nreq, succ>>

\* A handler that answers 400 and leaves the change of the flag in place.
UpdateAccountCommitNoRollback(p) ==
    /\ req[p].pc = "ua_commit"
    /\ LET r == req[p]
       IN  IF r.renamed /\ AccountNameTaken(r.update.name, r.account_id)
           THEN /\ Raise(p, r, "BadRequest", "Account name already exists")
                /\ accounts' = [accounts EXCEPT ![r.account_id] =
                                   UpdateAccountRow(@, r.loaded, r.update, FALSE)]
           ELSE /\ accounts' = [accounts EXCEPT ![r.account_id] =
                                   UpdateAccountRow(@, r.loaded, r.update,
                                                    r.renamed)]
                /\ req' = [req EXCEPT ![p] =
                               [r EXCEPT !.pc = "ua_refresh"] @@
                               [before |-> AccountRow(r.account_id)]]
                /\ last' = NoResponse
    /\ UNCHANGED <<entries, nreq, succ>>

\* await db.commit(), and the IntegrityError handler: rollback and 400.
UpdateAccountCommit(p) ==
    /\ req[p].pc = "ua_commit"
    /\ LET r == req[p]
       IN  IF r.renamed /\ AccountNameTaken(r.update.name, r.account_id)
           THEN /\ Raise(p, r, "BadRequest", "Account name already exists")
                /\ UNCHANGED accounts
           ELSE /\ accounts' = [accounts EXCEPT ![r.account_id] =
                                   UpdateAccountRow(@, r.loaded, r.update,
                                                    r.renamed)]
                /\ req' = [req EXCEPT ![p] =
                               [r EXCEPT !.pc = "ua_refresh"] @@
                               [before |-> AccountRow(r.account_id)]]
                /\ last' = NoResponse
    /\ UNCHANGED <<entries, nreq, succ>>

UpdateAccountRefresh(p) ==
    /\ req[p].pc = "ua_refresh"
    /\ Respond(p, req[p], "ok", AccountOut(AccountRow(req[p].account_id)))
    /\ UNCHANGED <<accounts, entries, nreq, succ>>

\* The account service alone, over the seeded database.
AccountNext ==
    \E p \in Procs :
        \/ \E body \in CreateAccountBodies : CreateAccountStart(p, body)
        \/ CreateAccountInsert(p)
        \/ CreateAccountReactivate(p)
        \/ CreateAccountRefresh(p)
        \/ \E id \in AccountTargetIds, update \in AccountUpdates :
               UpdateAccountStart(p, id, update)
        \/ UpdateAccountNameCheck(p)
        \/ UpdateAccountCommit(p)
        \/ UpdateAccountRefresh(p)

AccountSpec == Init /\ [][AccountNext]_vars

\* ---------------------------------------------------------------- reads
\* func.lower(DBAccount.name) and account_name.lower(), currency.upper().
Lower(s) ==
    CASE s \in {"Cash", "CASH", "cash"} -> "cash"
      [] s \in {"Bank", "bank"} -> "bank"
      [] s \in {"Suspense", "suspense"} -> "suspense"
      [] s \in {"Petty", "petty"} -> "petty"
      [] OTHER -> s

Upper(s) ==
    CASE s \in {"usd", "USD"} -> "USD"
      [] s \in {"eur", "EUR"} -> "EUR"
      [] OTHER -> s

\* The text of an instant in ISO 8601, and datetime.fromisoformat on a text:
\* the instant, or a ValueError.
IsoFormat(t) == IF t = SeedTime THEN "2025-03-01T00:00:00+00:00"
                ELSE "2025-03-26T00:00:00+00:00"

ValueError == -1

FromIsoFormat(s) ==
    IF \E t \in {SeedTime, Now} : IsoFormat(t) = s
    THEN CHOOSE t \in {SeedTime, Now} : IsoFormat(t) = s
    ELSE ValueError

\* EntryType(entry_type): the member of the schema enum with that value.
EntryTypeByValue(v) ==
    IF v \in {"debit", "credit"} THEN SchemaEntryType(v) ELSE [class |-> "ValueError"]

\* Building the statement raises before any query is sent.
ListRaises(f) ==
    \/ Truthy(f.entry_type) /\ EntryTypeByValue(f.entry_type).class = "ValueError"
    \/ Truthy(f.start_date) /\ FromIsoFormat(f.start_date) = ValueError
    \/ Truthy(f.end_date) /\ FromIsoFormat(f.end_date) = ValueError

\* The optional WHERE clauses of list_entries on entry e.
ListFilter(f, e) ==
    /\ Truthy(f.account_name)
       => Lower(accounts[entries[e].account_id].name) = Lower(f.account_name)
    /\ Truthy(f.currency) => entries[e].currency = Upper(f.currency)
    /\ Truthy(f.entry_type)
       => entries[e].entry_type = EnumColumn(EntryTypeByValue(f.entry_type))
    /\ Truthy(f.start_date) => entries[e].date >= FromIsoFormat(f.start_date)
    /\ Truthy(f.end_date) => entries[e].date <= FromIsoFormat(f.end_date)

ListMatchesWithDeleted(f) == {e \in EntryIds : ListFilter(f, e)}

\* The rows of list_entries' statement: is_deleted IS false and the filters.
ListMatches(f) == {e \in EntryIds : ~entries[e].is_deleted /\ ListFilter(f, e)}

\* ORDER BY date DESC: every arrangement of the rows with no later date
\* after an earlier one; rows of equal date come in any order.
Orders(ids) ==
    {o \in [1..Cardinality(ids) -> ids] :
        /\ \A i, j \in DOMAIN o : i # j => o[i] # o[j]
        /\ \A i, j \in DOMAIN o :
               i < j => entries[o[i]].date >= entries[o[j]].date}

PageNoLimit(o, limit, offset) ==
    [i \in 1..(IF Len(o) > offset THEN Len(o) - offset ELSE 0) |-> o[offset + i]]

\* OFFSET offset LIMIT limit.
Page(o, limit, offset) ==
    [i \in 1..(IF Len(o) - offset < limit
               THEN (IF Len(o) > offset THEN Len(o) - offset ELSE 0)
               ELSE limit) |-> o[offset + i]]

\* The WHERE of get_summary's statement: is_deleted = false, the id of the
\* active account of exactly that name, the currency and the dates.
SummaryFilter(f, e) ==
    /\ Truthy(f.account_name)
       => entries[e].account_id = ActiveAccountByName(f.account_name)
    /\ Truthy(f.currency) => entries[e].currency = Upper(f.currency)
    /\ f.start_date # NoDate => entries[e].date >= f.start_date
    /\ f.end_date # NoDate => entries[e].date <= f.end_date

SummaryMatchesWithDeleted(f) == {e \in EntryIds : SummaryFilter(f, e)}

SummaryMatches(f) ==
    {e \in EntryIds : ~entries[e].is_deleted /\ SummaryFilter(f, e)}

\* SUM(amount) over a set of rows.
RECURSIVE SumAmount(_)
SumAmount(ids) ==
    IF ids = {} THEN 0
    ELSE LET e == CHOOSE x \in ids : TRUE
         IN  entries[e].amount + SumAmount(ids \ {e})

\* GROUP BY entry_type: one row (entry_type, count, total) for each kind
\* that has rows.
SummaryRows(f) ==
    {[entry_type |-> k,
      count |-> Cardinality({e \in SummaryMatches(f) : entries[e].entry_type = k}),
      total |-> SumAmount({e \in SummaryMatches(f) : entries[e].entry_type = k})] :
        k \in {entries[e].entry_type : e \in SummaryMatches(f)}}

\* GET /entries/{id}: one SELECT, then the gateway.
GetEntryById(p, id, gateway_ok) ==
    /\ Free(p)
    /\ nreq' = nreq + 1
    /\ LET request == [op |-> "read", entry_id |-> id]
           entry == ActiveEntryById(id)
       IN  IF entry = NoEntry
           THEN Respond(p, request, "NotFound", NoEntry)
           ELSE IF gateway_ok
           THEN Respond(p, request, "ok",
                        LedgerEntryOut(entry, CanadianAmount(entry.amount)))
           ELSE Respond(p, request, "GatewayFailure", NoEntry)
    /\ UNCHANGED <<accounts, entries, succ>>

\* GET /entries: the statement is built and the count query is run.
ListEntriesCount(p, f) ==
    /\ Free(p)
    /\ nreq' = nreq + 1
    /\ LET request == [op |-> "list", filters |-> f]
       IN  IF ListRaises(f)
           THEN Respond(p, request, "ValueError", NoEntry)
           ELSE /\ req' = [req EXCEPT ![p] =
                               [pc |-> "l_page",
                                total |-> Cardinality(ListMatches(f))]
                               @@ request]
                /\ last' = NoResponse
    /\ UNCHANGED <<accounts, entries, succ>>

\* The page query, the gateway call and the response.
ListEntriesPage(p, gateway_ok) ==
    /\ req[p].pc = "l_page"
    /\ \E o \in Orders(ListMatches(req[p].filters)) :
       LET f == req[p].filters
           results == Page(o, f.limit, f.offset)
       IN  IF gateway_ok
           THEN Respond(p, req[p], "ok",
                        [total |-> req[p].total, limit |-> f.limit,
                         offset |-> f.offset,
                         entries |->
                            [i \in DOMAIN results |->
                               LedgerEntryOut(Row(results[i]),
                                  CanadianAmount(entries[results[i]].amount))]])
           ELSE Respond(p, req[p], "GatewayFailure", NoEntry)
    /\ UNCHANGED <<accounts, entries, nreq, succ>>

\* GET /summary.  db.execute returns a Result, whose first() and all() give a
\* row or a list and no awaitable: `await result.first()` (with an account
\* name) and `await result.all()` (without) raise TypeError, before any
\* SummaryOut is built.
GetSummary(p, f) ==
    /\ Free(p)
    /\ nreq' = nreq + 1
    /\ Respond(p, [op |-> "summary", filters |-> f], "TypeError", NoEntry)
    /\ UNCHANGED <<accounts, entries, succ>>

\* The requests of the entry service over a database whose accounts can be
\* deactivated.
ReadCreateBodies ==
    { NewCreate,
      [NewCreate EXCEPT !.account_name = "Suspense"],
      [NewCreate EXCEPT !.account_name = "Nobody"] }

ReadUpdateBodies ==
    { [amount |-> 500000, description |-> None],
      [amount |-> 1000, description |-> None],
      [amount |-> NoAmount, description |-> ""] }

NoFilters ==
    [account_name |-> None, currency |-> None, entry_type |-> None,
     start_date |-> None, end_date |-> None]

ListRequests ==
    { NoFilters @@ [limit |-> 100, offset |-> 0],
      [account_name |-> "CASH", currency |-> "usd", entry_type |-> "debit",
       start_date |-> IsoFormat(SeedTime), end_date |-> IsoFormat(Now),
       limit |-> 1, offset |-> 0] }

SummaryRequests ==
    { [account_name |-> None, currency |-> None,
       start_date |-> NoDate, end_date |-> NoDate],
      [account_name |-> "Cash", currency |-> "usd",
       start_date |-> SeedTime, end_date |-> Now],
      [account_name |-> "Nobody", currency |-> None,
       start_date |-> NoDate, end_date |-> NoDate],
      [account_name |-> "Suspense", currency |-> None,
       start_date |-> NoDate, end_date |-> NoDate] }

\* PATCH /accounts/1 {"is_active": false}: Cash, the account of the seeded
\* entry, is deactivated.
Deactivate == [name |-> None, is_active |-> FALSE]

ReadNext ==
    \E p \in Procs :
        \/ \E body \in ReadCreateBodies : CreateStart(p, body)
        \/ CreateKeyLookup(p)
        \/ CreateCommit(p)
        \/ \E gateway_ok \in BOOLEAN : CreateRefresh(p, gateway_ok)
        \/ \E id \in TargetIds, body \in ReadUpdateBodies : UpdateStart(p, id, body)
        \/ UpdateCommit(p)
        \/ \E gateway_ok \in BOOLEAN : UpdateRefresh(p, gateway_ok)
        \/ \E id \in TargetIds : DeleteStart(p, id)
        \/ DeleteCommit(p)
        \/ DeleteRefresh(p)
        \/ \E id \in TargetIds, gateway_ok \in BOOLEAN : GetEntryById(p, id, gateway_ok)
        \/ \E f \in ListRequests : ListEntriesCount(p, f)
        \/ \E gateway_ok \in BOOLEAN : ListEntriesPage(p, gateway_ok)
        \/ UpdateAccountStart(p, 1, Deactivate)
        \/ UpdateAccountCommit(p)
        \/ UpdateAccountRefresh(p)

ReadSpec == Init /\ [][ReadNext]_vars

\* The reads of many entries next to the requests that add, change and
\* delete entries.
ListNext ==
    \E p \in Procs :
        \/ CreateStart(p, NewCreate)
        \/ CreateKeyLookup(p)
        \/ CreateCommit(p)
        \/ \E gateway_ok \in BOOLEAN : CreateRefresh(p, gateway_ok)
        \/ \E id \in EntryIds : UpdateStart(p, id, [amount |-> 1000, description |-> None])
        \/ UpdateCommit(p)
        \/ \E gateway_ok \in BOOLEAN : UpdateRefresh(p, gateway_ok)
        \/ \E id \in EntryIds : DeleteStart(p, id)
        \/ DeleteCommit(p)
        \/ DeleteRefresh(p)
        \/ \E f \in ListRequests : ListEntriesCount(p, f)
        \/ \E gateway_ok \in BOOLEAN : ListEntriesPage(p, gateway_ok)
        \/ \E f \in SummaryRequests : GetSummary(p, f)

ListSpec == Init /\ [][ListNext]_vars

\* A create request that gives the date of the seeded entry, under a key of
\* its own.
DatedCreate ==
    [NewCreate EXCEPT !.date = SeedTime, !.idempotency_key = "key-0003"]

\* GET /entries with a second page, and with dates that fromisoformat
\* refuses.
PageRequests ==
    ListRequests \cup
    { NoFilters @@ [limit |-> 1, offset |-> 1],
      [NoFilters EXCEPT !.start_date = "yesterday"] @@ [limit |-> 100, offset |-> 0],
      [NoFilters EXCEPT !.end_date = "2025-13-01"] @@ [limit |-> 1, offset |-> 0] }

\* The pages of GET /entries next to the requests that add and delete
\* entries, some of them of equal date.
PageNext ==
    \E p \in Procs :
        \/ \E body \in {NewCreate, DatedCreate} : CreateStart(p, body)
        \/ CreateKeyLookup(p)
        \/ CreateCommit(p)
        \/ \E gateway_ok \in BOOLEAN : CreateRefresh(p, gateway_ok)
        \/ \E id \in EntryIds : DeleteStart(p, id)
        \/ DeleteCommit(p)
        \/ DeleteRefresh(p)
        \/ \E f \in PageRequests : ListEntriesCount(p, f)
        \/ \E gateway_ok \in BOOLEAN : ListEntriesPage(p, gateway_ok)

PageSpec == Init /\ [][PageNext]_vars

\* Requests of both services that the code refuses, next to requests that
\* it carries out.
FrameCreateBodies ==
    { NewCreate,
      [SeedCreate EXCEPT !.amount = 1000],
      [NewCreate EXCEPT !.account_name = "Nobody"] }

FrameUpdateBodies ==
    { [amount |-> NoAmount, description |-> None],
      [amount |-> 500000, description |-> None],
      [amount |-> 1000, description |-> None] }

FrameAccountBodies ==
    { [name |-> "Cash", is_active |-> TRUE],
      [name |-> "Suspense", is_active |-> TRUE],
      [name |-> "Petty", is_active |-> TRUE] }

FrameAccountUpdates ==
    { [name |-> "Petty", is_active |-> FALSE],
      [name |-> "Cash", is_active |-> FALSE] }

FrameNext ==
    \E p \in Procs :
        \/ \E body \in FrameCreateBodies : CreateStart(p, body)
        \/ CreateKeyLookup(p)
        \/ CreateCommit(p)
        \/ \E gateway_ok \in BOOLEAN : CreateRefresh(p, gateway_ok)
        \/ \E id \in TargetIds, body \in FrameUpdateBodies : UpdateStart(p, id, body)
        \/ UpdateCommit(p)
        \/ \E gateway_ok \in BOOLEAN : UpdateRefresh(p, gateway_ok)
        \/ \E id \in TargetIds : DeleteStart(p, id)
        \/ DeleteCommit(p)
        \/ DeleteRefresh(p)
        \/ \E body \in FrameAccountBodies : CreateAccountStart(p, body)
        \/ CreateAccountInsert(p)
        \/ CreateAccountReactivate(p)
        \/ CreateAccountRefresh(p)
        \/ \E id \in AccountTargetIds, update \in FrameAccountUpdates :
              UpdateAccountStart(p, id, update)
        \/ UpdateAccountNameCheck(p)
        \/ UpdateAccountCommit(p)
        \/ UpdateAccountRefresh(p)

FrameSpec == Init /\ [][FrameNext]_vars

\* ------------------------------------------------ the claims on the reads
\* The step starts the request: it answers it at once, or leaves it in
\* progress in a session that was idle.
StartedIs(request) ==
    /\ nreq' = nreq + 1
    /\ \/ /\ last'.status # "none"
          /\ last'.request = request
       \/ \E p \in Procs :
              /\ req[p].pc = "idle"
              /\ req'[p].pc # "idle"
              /\ DOMAIN request \subseteq DOMAIN req'[p]
              /\ [x \in DOMAIN request |-> req'[p][x]] = request

\* The step starts the request and answers it at once.
AnsweredAtOnce(request) == StartedIs(request) /\ last'.status # "none"

DeletedIds == {e \in EntryIds : entries[e].is_deleted}

\* Every combination of filters of GET /entries and of GET /summary.
ListFilters ==
    [account_name : {None, "cash", "Cash", "Suspense"},
     currency : {None, "usd", "eur"},
     entry_type : {None, "debit", "credit"},
     start_date : {None, IsoFormat(Now)},
     end_date : {None, IsoFormat(SeedTime)}]

SummaryFilters ==
    [account_name : {None, "cash", "Cash", "Suspense"},
     currency : {None, "usd", "eur"},
     start_date : {NoDate, Now},
     end_date : {NoDate, SeedTime}]

\* C11: in every reachable state and for every combination of filters, the
\* rows of List's statement and of GetSummary's statement hold no entry
\* whose is_deleted is true, and the counts and totals of GetSummary's
\* grouped rows are those of the matching entries that are not deleted; the
\* total List reports is the number of matching entries that are not
\* deleted, and no entry of a page it returns is deleted.
C11_DeletedExcluded ==
    /\ [](/\ \A f \in ListFilters :
                /\ ListMatches(f) \cap DeletedIds = {}
                /\ ListMatches(f) = ListMatchesWithDeleted(f) \ DeletedIds
          /\ \A g \in SummaryFilters :
                /\ SummaryMatches(g) \cap DeletedIds = {}
                /\ \A r \in SummaryRows(g) :
                     LET kind == {e \in SummaryMatchesWithDeleted(g) \ DeletedIds :
                                     entries[e].entry_type = r.entry_type}
                     IN  /\ r.count = Cardinality(kind)
                         /\ r.total = SumAmount(kind))
    /\ [][\A p \in Procs :
            /\ (req[p].pc = "idle" /\ req'[p].pc = "l_page")
               => req'[p].total =
                     Cardinality({e \in EntryIds \ DeletedIds :
                                     ListFilter(req'[p].filters, e)})
            /\ (Steps(p, "l_page") /\ last'.status = "ok")
               => \A i \in DOMAIN last'.out.entries :
                     /\ ~last'.out.entries[i].is_deleted
                     /\ last'.out.entries[i].id \notin DeletedIds]_vars

\* A List has been answered with an entry on its page while a deleted entry
\* that passes the same filters is stored.
C11_Witness ==
    /\ last.status = "ok"
    /\ last.request.op = "list"
    /\ Len(last.out.entries) >= 1
    /\ \E e \in DeletedIds : ListFilter(last.request.filters, e)

\* C12: Read, Update and Delete of the id of a soft-deleted entry are
\* answered as those of an id that was never created: each is answered at
\* once with NotFound and no data, and writes nothing.
C12_DeletedAsUnknown ==
    [][\A id \in DeletedIds \cup {UnknownId} :
         \A request \in {[op |-> "read", entry_id |-> id],
                         [op |-> "delete", entry_id |-> id]}
                        \cup {[op |-> "update", entry_id |-> id, body |-> b] :
                                 b \in ReadUpdateBodies} :
            StartedIs(request)
            => /\ last'.status = "NotFound"
               /\ last'.out = NoEntry
               /\ entries' = entries]_vars

\* A Read of a soft-deleted entry has been answered.
C12_Witness ==
    /\ last.status = "NotFound"
    /\ last.request.op = "read"
    /\ last.request.entry_id \in DeletedIds

\* C13: a Create that names an account that does not exist, or that is
\* inactive when the Create looks it up, is answered NotFound at once and
\* inserts no entry.
C13_CreateNeedsActiveAccount ==
    [][\A body \in ReadCreateBodies :
         ( /\ StartedIs([op |-> "create", body |-> body])
           /\ ~\E a \in AccountIds : /\ accounts[a].name = body.account_name
                                     /\ accounts[a].is_active )
         => /\ last'.status = "NotFound"
            /\ entries' = entries]_vars

\* A Create for Cash, deactivated by an earlier request, has been refused.
C13_Witness ==
    /\ last.status = "NotFound"
    /\ last.request.op = "create"
    /\ \E a \in AccountIds : /\ accounts[a].name = last.request.body.account_name
                             /\ ~accounts[a].is_active
                             /\ SeedAccounts[a].is_active

\* The entries that are not deleted and whose account is inactive.
OfInactiveAccount ==
    {e \in EntryIds \ DeletedIds : ~accounts[entries[e].account_id].is_active}

\* C14: an entry that is not deleted and whose account has been deactivated
\* is returned as stored by Read, is counted and returned by List (also when
\* List filters on the account's name), and an Update or a Delete of it is
\* not refused and writes the entry.
C14_DeactivationKeepsEntries ==
    [][\A e \in OfInactiveAccount :
         /\ AnsweredAtOnce([op |-> "read", entry_id |-> e])
              => \/ last'.status = "GatewayFailure"
                 \/ /\ last'.status = "ok"
                    /\ last'.out = LedgerEntryOut(Row(e), CanadianAmount(entries[e].amount))
         /\ e \in ListMatches(NoFilters)
         /\ e \in ListMatches([NoFilters EXCEPT
                                 !.account_name = accounts[entries[e].account_id].name])
         /\ \A p \in Procs :
              /\ ( /\ req[p].pc = "idle" /\ req'[p].pc = "l_page"
                   /\ ListFilter(req'[p].filters, e) )
                 => req'[p].total >= 1
              /\ ( /\ Steps(p, "l_page") /\ last'.status = "ok"
                   /\ ListFilter(req[p].filters, e)
                   /\ req[p].filters.offset = 0
                   /\ req[p].filters.limit >= Len(entries) )
                 => \E i \in DOMAIN last'.out.entries : last'.out.entries[i].id = e
              /\ ( /\ Steps(p, "u_commit") /\ req[p].entry_id = e )
                 => /\ entries'[e].version = req[p].loaded.version + 1
                    /\ entries'[e].updated_at = req[p].now
              /\ ( /\ (Steps(p, "u_refresh") \/ Steps(p, "d_refresh"))
                   /\ req[p].entry_id = e )
                 => last'.status \in {"ok", "GatewayFailure"}
              /\ ( /\ Steps(p, "d_commit") /\ req[p].entry_id = e )
                 => entries'[e].is_deleted
         /\ \A b \in ReadUpdateBodies :
              ( /\ StartedIs([op |-> "update", entry_id |-> e, body |-> b])
                /\ ChangesDetected(entries[e], b) )
              => last'.status = "none"
         /\ StartedIs([op |-> "delete", entry_id |-> e]) => last'.status = "none"]_vars

\* An Update of an entry has been answered ok while the entry's account is
\* inactive.
C14_Witness ==
    /\ last.status = "ok"
    /\ last.request.op = "update"
    /\ last.request.entry_id \in OfInactiveAccount

\* C15: an Update of an entry that is not deleted, whose supplied amount and
\* description are those stored (None and "" alike), is answered BadRequest
\* at once and leaves every entry as it was.
C15_NoChangeIsBadRequest ==
    [][\A id \in EntryIds \ DeletedIds :
         \A body \in ReadUpdateBodies :
            ( /\ StartedIs([op |-> "update", entry_id |-> id, body |-> body])
              /\ body.amount # NoAmount => body.amount = entries[id].amount
              /\ body.description # None
                 => OrEmpty(body.description) = OrEmpty(entries[id].description) )
            => /\ last'.status = "BadRequest"
               /\ entries' = entries]_vars

\* An Update that supplies the description "" for an entry stored with no
\* description has been refused.
C15_Witness ==
    /\ last.status = "BadRequest"
    /\ last.request.op = "update"
    /\ last.request.entry_id \in EntryIds \ DeletedIds
    /\ last.request.body.description = ""
    /\ entries[last.request.entry_id].description = None

\* The fields that are set at creation only.
Immutable(row) ==
    <<row.account_id, row.entry_type, row.currency, row.date, row.idempotency_key>>

\* C16: no step changes the account, kind, currency, date or idempotency key
\* of a stored entry, and the write of an Update or of a Delete changes no
\* other entry and no account.
C16_ImmutableFields ==
    [][/\ \A e \in EntryIds :
            e \in DOMAIN entries' /\ Immutable(entries'[e]) = Immutable(entries[e])
       /\ \A p \in Procs :
            (Steps(p, "u_commit") \/ Steps(p, "d_commit"))
            => /\ accounts' = accounts
               /\ DOMAIN entries' = DOMAIN entries
               /\ \A e \in EntryIds \ {req[p].entry_id} : entries'[e] = entries[e]]_vars

\* An Update has written one of two stored entries.
C16_Witness ==
    \E p \in Procs :
        /\ req[p].pc = "u_refresh"
        /\ entries[req[p].entry_id] # req[p].before
        /\ Len(entries) >= 2

\* --------------------------------------------- the claims on the accounts
\* C17: in every reachable state no two accounts that are both active have
\* the same name, whatever the interleaving of create_account and
\* update_account requests.
C17_OneActivePerName ==
    \A a, b \in AccountIds :
        (a # b /\ accounts[a].is_active /\ accounts[b].is_active)
            => accounts[a].name # accounts[b].name

\* A request has passed its check of the name and is about to write a name
\* that an active account has come to hold in the meantime.
C17_Witness ==
    \E p \in Procs :
        /\ \/ req[p].pc = "a_insert" /\ AccountNameTaken(req[p].body.name, NoAccount)
           \/ /\ req[p].pc = "ua_commit"
              /\ req[p].renamed
              /\ AccountNameTaken(req[p].update.name, req[p].account_id)
        /\ \E a \in AccountIds :
              /\ accounts[a].is_active
              /\ accounts[a].name =
                    IF req[p].pc = "a_insert" THEN req[p].body.name
                    ELSE req[p].update.name

C19_Reactivation ==
    [][\A p \in Procs :
         /\ Steps(p, "a_reactivate")
            => LET id == req[p].account_id
               IN  /\ accounts' = [accounts EXCEPT ![id].is_active = TRUE]
                   /\ accounts[id].name = req[p].loaded.name
         /\ (Steps(p, "a_refresh") /\ req[p].before.id # NoAccount)
            => /\ last'.status = "ok"
               /\ last'.out.id = req[p].loaded.id
               /\ last'.out.name = req[p].loaded.name]_vars

HeldByAnother(n, id) == \E a \in AccountIds : a # id /\ accounts[a].name = n

C22_CreateRaceIsConflict ==
    [][\A p \in Procs :
         (Steps(p, "a_insert") /\ HeldByAnother(req[p].body.name, NoAccount))
         => /\ last'.status \in {"Conflict", "BadRequest"}
            /\ accounts' = accounts
            /\ Cardinality({a \in AccountIds :
                               accounts[a].name = req[p].body.name}) = 1]_vars

\* ------------------------------------------------ the claims on the pages
\* C23: the total of a List call is the number of entries that are not
\* deleted and pass its filters in the store as the count query finds it,
\* whatever limit and offset are; the response carries that total, and its
\* entries are no more than limit.
C23_TotalAndLimit ==
    [][\A p \in Procs :
         /\ (req[p].pc = "idle" /\ req'[p].pc = "l_page")
            => /\ req'[p].total =
                    Cardinality({e \in EntryIds \ DeletedIds :
                                    ListFilter(req'[p].filters, e)})
               /\ \A g \in PageRequests :
                    [x \in DOMAIN NoFilters |-> g[x]] =
                    [x \in DOMAIN NoFilters |-> req'[p].filters[x]]
                    => Cardinality(ListMatches(g)) = req'[p].total
         /\ (Steps(p, "l_page") /\ last'.status = "ok")
            => /\ last'.out.total = req[p].total
               /\ last'.out.limit = req[p].filters.limit
               /\ Len(last'.out.entries) <= req[p].filters.limit]_vars

\* A List call has returned a full page of fewer entries than its total.
C23_Witness ==
    /\ last.status = "ok"
    /\ last.request.op = "list"
    /\ Len(last.out.entries) = last.out.limit
    /\ last.out.total > last.out.limit

\* C24: the entries of a page List returns are in descending order of date,
\* and entries of equal date are in ascending order of id, which is the
\* order of insertion.
C24_FixedOrder ==
    [][\A p \in Procs :
         (Steps(p, "l_page") /\ last'.status = "ok")
         => \A i, j \in DOMAIN last'.out.entries :
               i < j =>
                 LET a == last'.out.entries[i]
                     b == last'.out.entries[j]
                 IN  \/ a.date > b.date
                     \/ a.date = b.date /\ a.id < b.id]_vars

\* C25: a List call with a start or end date that fromisoformat refuses is
\* answered BadRequest.
C25_BadDateIsBadRequest ==
    [][\A f \in PageRequests :
         (/\ AnsweredAtOnce([op |-> "list", filters |-> f])
          /\ \/ Truthy(f.start_date) /\ FromIsoFormat(f.start_date) = ValueError
             \/ Truthy(f.end_date) /\ FromIsoFormat(f.end_date) = ValueError)
         => last'.status = "BadRequest"]_vars

\* ---------------------------------------------- the claims on the summary
\* The summary of no entries, and the summary of the entries that are not
\* deleted and pass the filters f: for each kind their number and the sum of
\* their amounts, balanced when the two sums are equal.
ZeroSummary ==
    [num_debits |-> 0, total_debit_amount |-> 0,
     num_credits |-> 0, total_credit_amount |-> 0, is_balanced |-> TRUE]

OfKind(f, n) ==
    {e \in SummaryMatches(f) : entries[e].entry_type = DBEntryType(n)}

ExpectedSummary(f) ==
    [num_debits |-> Cardinality(OfKind(f, "debit")),
     total_debit_amount |-> SumAmount(OfKind(f, "debit")),
     num_credits |-> Cardinality(OfKind(f, "credit")),
     total_credit_amount |-> SumAmount(OfKind(f, "credit")),
     is_balanced |-> SumAmount(OfKind(f, "debit")) = SumAmount(OfKind(f, "credit"))]

\* Some request that writes entries is in progress.
WriteInProgress ==
    \E q \in Procs :
        req[q].pc \in {"c_key", "c_commit", "c_refresh", "u_commit",
                       "u_refresh", "d_commit", "d_refresh"}

C27_NoActiveAccountIsZero ==
    [][\A f \in SummaryRequests :
         (/\ AnsweredAtOnce([op |-> "summary", filters |-> f])
          /\ Truthy(f.account_name)
          /\ ActiveAccountByName(f.account_name) = NoAccount)
         => /\ last'.status = "ok"
            /\ last'.out = ZeroSummary]_vars

\* C28: GetSummary returns for debit and for credit the number and the sum
\* of the amounts of the entries of that kind that are not deleted and pass
\* the filters, 0 and 0.00 for a kind with none.
C28_CountsAndSums ==
    [][\A f \in SummaryRequests :
         AnsweredAtOnce([op |-> "summary", filters |-> f])
         => /\ last'.status = "ok"
            /\ last'.out.num_debits = Cardinality(OfKind(f, "debit"))
            /\ last'.out.total_debit_amount = SumAmount(OfKind(f, "debit"))
            /\ last'.out.num_credits = Cardinality(OfKind(f, "credit"))
            /\ last'.out.total_credit_amount = SumAmount(OfKind(f, "credit"))]_vars

C30_WriteSurvivesGatewayFailure ==
    [][\A p \in Procs :
         /\ Steps(p, "c_commit") /\ req'[p].pc = "c_refresh"
            => /\ Len(entries') = Len(entries) + 1
               /\ req'[p].entry_id = Len(entries')
               /\ entries'[Len(entries')].idempotency_key =
                     req[p].body.idempotency_key
               /\ entries'[Len(entries')].amount = req[p].body.amount
         /\ Steps(p, "u_commit")
            => LET r == req[p]
                   row == entries'[r.entry_id]
               IN  /\ row.version = r.loaded.version + 1
                   /\ (r.body.amount # NoAmount /\ r.body.amount # r.loaded.amount)
                      => row.amount = r.body.amount
                   /\ (r.body.description # None
                          /\ r.body.description # r.loaded.description)
                      => row.description = r.body.description
         /\ ((Steps(p, "c_refresh") \/ Steps(p, "u_refresh"))
                /\ last'.status = "GatewayFailure")
            => /\ entries' = entries
               /\ req[p].entry_id \in EntryIds
               /\ last'.request.entry_id = req[p].entry_id]_vars

\* An Update has reported a gateway failure and the amount and the version
\* it wrote are in the store.
C30_Witness ==
    /\ last.status = "GatewayFailure"
    /\ last.request.op = "update"
    /\ last.request.body.amount # NoAmount
    /\ last.request.body.amount # last.request.loaded.amount
    /\ entries[last.request.entry_id].amount = last.request.body.amount
    /\ entries[last.request.entry_id].version = last.request.loaded.version + 1

\* ------------------------------------------------ the claims on the replay
\* C31: a Create whose idempotency key is held by a stored entry of the same
\* account, kind, amount, currency and description is answered ok with the
\* response of the creation: the stored entry and, at the same rate, its
\* converted amount.
C31_ReplayCarriesConversion ==
    [][\A p \in Procs :
         LET r == req[p]
             existing == EntryByKey(r.body.idempotency_key)
         IN  ( /\ Steps(p, "c_key")
               /\ existing # NoEntry
               /\ SameData(existing, r.body, r.account_id) )
             => /\ last'.status = "ok"
                /\ last'.out =
                      LedgerEntryOut(existing, CanadianAmount(existing.amount))]_vars

\* C32: an Update that supplies neither amount nor description is answered
\* BadRequest with "No fields provided to update" at once, whether its id is
\* unknown, of a deleted entry or of a stored one, and it writes nothing.
C32_NoFieldsIsBadRequest ==
    [][\A id \in TargetIds :
         StartedIs([op |-> "update", entry_id |-> id,
                    body |-> [amount |-> NoAmount, description |-> None]])
         => /\ last'.status = "BadRequest"
            /\ last'.detail = "No fields provided to update"
            /\ entries' = entries
            /\ accounts' = accounts]_vars

\* An Update with no field has been refused as a BadRequest for the id of a
\* deleted entry.
C32_Witness ==
    /\ last.status = "BadRequest"
    /\ last.request.op = "update"
    /\ last.request.body = [amount |-> NoAmount, description |-> None]
    /\ last.request.entry_id \in DeletedIds

\* C33: a Create whose key and payload are those of a stored entry, sent
\* when the account it names (the entry's account) is inactive, is answered
\* NotFound at once, not with the stored entry, and writes nothing.
C33_ReplayNeedsActiveAccount ==
    [][\A body \in ReadCreateBodies :
         LET existing == EntryByKey(body.idempotency_key)
         IN  ( /\ StartedIs([op |-> "create", body |-> body])
               /\ existing # NoEntry
               /\ SameData(existing, body, existing.account_id)
               /\ accounts[existing.account_id].name = body.account_name
               /\ ~accounts[existing.account_id].is_active )
             => /\ last'.status = "NotFound"
                /\ entries' = entries
                /\ accounts' = accounts]_vars

\* The Create that had inserted an entry for Cash has been sent again after
\* Cash was deactivated, and has been refused.
C33_Witness ==
    /\ last.status = "NotFound"
    /\ last.request.op = "create"
    /\ LET existing == EntryByKey(last.request.body.idempotency_key)
       IN  /\ existing # NoEntry
           /\ existing.id \notin DOMAIN SeedEntries
           /\ SameData(existing, last.request.body, existing.account_id)
           /\ accounts[existing.account_id].name = last.request.body.account_name
           /\ ~accounts[existing.account_id].is_active

\* C34: a Create whose key is held by a deleted entry inserts nothing and
\* changes nothing; with the account, kind, amount, currency and description
\* of that entry it is answered ok with the deleted entry, is_deleted true
\* and the stored version, and with other data it is answered Conflict.
C34_KeyStaysReserved ==
    [][\A p \in Procs :
         LET r == req[p]
             existing == EntryByKey(r.body.idempotency_key)
         IN  ( /\ Steps(p, "c_key")
               /\ existing # NoEntry
               /\ existing.is_deleted )
             => /\ entries' = entries
                /\ IF SameData(existing, r.body, r.account_id)
                   THEN /\ last'.status = "ok"
                        /\ last'.out.id = existing.id
                        /\ last'.out.is_deleted
                        /\ last'.out.version = existing.version
                   ELSE last'.status = "Conflict"]_vars

\* The request names the account, kind and currency the entry was created
\* with, under the entry's key: it is the Create of that entry, or differs
\* from it in amount or description alone.
CreatedAs(existing, body, account_id) ==
    /\ existing.idempotency_key = body.idempotency_key
    /\ existing.account_id = account_id
    /\ existing.entry_type.name = body.entry_type.name
    /\ existing.currency = body.currency

\* C35: a Create sent again under its key after an Update has given the
\* entry another amount or description than the request's is answered
\* Conflict, and no entry is inserted or changed.
C35_ReplayAfterUpdateIsConflict ==
    [][\A p \in Procs :
         LET r == req[p]
             existing == EntryByKey(r.body.idempotency_key)
         IN  ( /\ Steps(p, "c_key")
               /\ existing # NoEntry
               /\ CreatedAs(existing, r.body, r.account_id)
               /\ existing.version > 1
               /\ \/ existing.amount # r.body.amount
                  \/ OrEmpty(existing.description) # OrEmpty(r.body.description) )
             => /\ last'.status = "Conflict"
                /\ entries' = entries]_vars

\* The Create of the seeded entry has been refused after a successful Update
\* gave the entry another amount.
C35_Witness ==
    /\ last.status = "Conflict"
    /\ last.request.op = "create"
    /\ last.request.body = SeedCreate
    /\ entries[1].amount # SeedCreate.amount
    /\ ~entries[1].is_deleted
    /\ succ[1] > 0

\* ------------------------------------------- the claims on the account names
\* An inactive account other than id holds the name n.
HeldByInactive(n, id) ==
    \E a \in AccountIds : a # id /\ accounts[a].name = n /\ ~accounts[a].is_active

\* C36: in every reachable state no two accounts, active or not, have the
\* same name; and an update_account that would give its account the name of
\* an inactive account is refused at its check of the name, or at its commit
\* if the name was taken after the check, and leaves every account as it was.
C36_NamesUniqueAmongAll ==
    /\ [](\A a, b \in AccountIds : a # b => accounts[a].name # accounts[b].name)
    /\ [][\A p \in Procs :
            ( /\ Steps(p, "ua_exists") \/ (Steps(p, "ua_commit") /\ req[p].renamed)
              /\ HeldByInactive(req[p].update.name, req[p].account_id) )
            => /\ last'.status \in {"BadRequest", "Conflict"}
               /\ last'.request.account_id = req[p].account_id
               /\ accounts' = accounts]_vars

\* A rename to the name of an inactive account has been refused.
C36_Witness ==
    /\ last.status = "BadRequest"
    /\ last.request.op = "update_account"
    /\ HeldByInactive(last.request.update.name, last.request.account_id)

\* ------------------------------------------------- the claims on the frame
\* C37: a step that answers a request of either service with NotFound,
\* Conflict or BadRequest leaves every account and every entry as it was,
\* and the request it answers has written nothing in an earlier step.
C37_RefusalWritesNothing ==
    [][last'.status \in {"NotFound", "Conflict", "BadRequest"}
       => /\ entries' = entries
          /\ accounts' = accounts
          /\ \A p \in Procs :
                req'[p] # req[p] =>
                   /\ req[p].pc \in {"idle", "c_key", "ua_exists", "ua_commit"}
                   /\ "before" \notin DOMAIN req[p]]_vars

\* An update_account that gave a new name and a new flag has been refused at
\* its commit, and its account has the name and the flag it had.
C37_Witness ==
    /\ last.status = "BadRequest"
    /\ last.request.op = "update_account"
    /\ last.request.renamed
    /\ FlagGiven(last.request.update)
    /\ accounts[last.request.account_id].name = last.request.loaded.name
    /\ accounts[last.request.account_id].is_active # last.request.update.is_active

\* ----------------------------------------- the claims on the two queries
\* min(limit, max(0, total - offset)).
FullPage(total, limit, offset) ==
    LET rest == IF total > offset THEN total - offset ELSE 0
    IN  IF rest < limit THEN rest ELSE limit

\* C38: the entries of a List response are as many as its total, limit and
\* offset give: min(limit, max(0, total - offset)).
C38_PageAgreesWithTotal ==
    [][\A p \in Procs :
         (Steps(p, "l_page") /\ last'.status = "ok")
         => Len(last'.out.entries) =
               FullPage(last'.out.total, last'.out.limit, last'.out.offset)]_vars

\* C39: in every reachable state and for every account name n, the entries
\* List counts for n are as many as the entries GetSummary's statement
\* counts for n.
C39_ListAgreesWithSummary ==
    \A n \in {"Cash", "CASH", "cash", "Bank", "Suspense", "Nobody"} :
        Cardinality(ListMatches([NoFilters EXCEPT !.account_name = n]))
        = Cardinality(SummaryMatches([account_name |-> n, currency |-> None,
                                      start_date |-> NoDate,
                                      end_date |-> NoDate]))

\* ------------------------------------------------- the claims on the retry
\* C40: when an Update has written its change and been answered with the
\* gateway failure, no other request having written the entry since the
\* Update loaded it, the same Update sent again is answered BadRequest with
\* "No changes detected in update" at once and writes nothing: the version
\* stays one above the version the first Update loaded.
C40_RetryFindsNoChange ==
    [][\A id \in EntryIds, body \in UpdateBodies :
         ( /\ last.status = "GatewayFailure"
           /\ last.request.op = "update"
           /\ last.request.entry_id = id
           /\ last.request.body = body
           /\ last.request.loaded = [id |-> id] @@ last.request.before
           /\ entries[id] = UpdateRow(last.request.before, last.request.loaded,
                                      body, last.request.now)
           /\ StartedIs([op |-> "update", entry_id |-> id, body |-> body]) )
         => /\ last'.status = "BadRequest"
            /\ last'.detail = "No changes detected in update"
            /\ entries' = entries
            /\ entries'[id].version = last.request.loaded.version + 1]_vars

\* The Update of the seeded entry's amount has been refused as no change,
\* the amount having been written by an Update that no success followed.
C40_Witness ==
    /\ last.status = "BadRequest"
    /\ last.detail = "No changes detected in update"
    /\ last.request.entry_id = 1
    /\ last.request.body = [amount |-> 1000, description |-> None]
    /\ entries[1].amount = 1000
    /\ entries[1].description = SeedEntries[1].description
    /\ entries[1].version = SeedEntries[1].version + 1
    /\ ~entries[1].is_deleted
    /\ succ[1] = 0
    /\ \A p \in Procs : req[p].pc = "idle"

====
